---- MODULE Spec2Model ----
(***************************************************************************)
(* CityConnect backend (src/unnamed/part_000, the Express server that      *)
(* serves /api/auth, /api/vehicles, /api/tickets, /api/routes and           *)
(* /api/staff).  Every route handler is one action: the handler's code,     *)
(* from its first validation to its response, is an operator that maps the  *)
(* datastore contents, the request and the outcome of every external call   *)
(* to the response and the new datastore contents.  The external auth       *)
(* service and the tables live outside the process; each call to them may   *)
(* fail, which the action draws as an input.                                *)
(***************************************************************************)
EXTENDS Integers, Sequences, FiniteSets, TLC

VARIABLES
    credentials,   \* auth service: email -> password, or NoCred
    profiles,      \* table user_profiles: identity id -> role, or NoProfile
    vehicles,      \* table vehicles: vehicle id -> status
    locations,     \* table vehicle_locations, rows in insertion order
    tickets,       \* table tickets, rows in insertion order
    now,           \* the server clock, milliseconds since the epoch
    resp,          \* the last request served and the response it got
    window,        \* the rate limiter's store: its window for the client address
    sessions,      \* the sessions the auth service holds, and the one the
                   \* process's supabase client holds
    app            \* the page of the frontend: the App component's state, its
                   \* refs, the browser's localStorage and interval timers

vars == <<credentials, profiles, vehicles, locations, tickets, now, resp, window,
          sessions, app>>

(***************************************************************************)
(* Bounds of the model.                                                     *)
(***************************************************************************)
MaxTickets == 2
MaxLocations == 2
MaxOverLimit == 2      \* requests followed beyond the rate limit
MaxTicks == 6          \* steps of the browser's clock
MaxPending == 2        \* vehicle fetches in flight

(***************************************************************************)
(* JavaScript values of request fields.  A field is absent (undefined), a   *)
(* number, a string (an atom) or a text (a string kept as its characters,   *)
(* where the code looks inside it).                                         *)
(***************************************************************************)
Undef == [t |-> "undefined"]
Num(n) == [t |-> "number", v |-> n]
Str(s) == [t |-> "string", v |-> s]
Text(cs) == [t |-> "text", v |-> cs]

\* !x of JavaScript: undefined, 0 and the empty string are falsy.
Falsy(x) ==
    \/ x.t = "undefined"
    \/ x.t = "number" /\ x.v = 0
    \/ x.t = "string" /\ x.v = ""
    \/ x.t = "text" /\ x.v = <<>>

(***************************************************************************)
(* The identities of the model.  The identity id the auth service assigns   *)
(* to a credential is written as the email it was created for.              *)
(***************************************************************************)
Emails == {"alice@x", "bob@x"}
Password == "pw-good"
NoCred == "no-credential"
NoProfile == "no-profile"
NoUser == "no-user"
Roles == {"traveller", "staff"}

\* Access tokens a client may send, and the identity each was issued to.
Tokens == {"tok-alice", "tok-bob", "tok-garbage"}
TokenOwner(tok) ==
    IF tok = "tok-alice" THEN "alice@x"
    ELSE IF tok = "tok-bob" THEN "bob@x"
    ELSE NoUser
AccessToken(id) == IF id = "alice@x" THEN "tok-alice" ELSE "tok-bob"

\* Authorization headers, already split on ' ' as authHeader.split(' ').
NoHeader == <<>>
AuthHeaders ==
    {NoHeader, <<"Bearer">>, <<"Bearer", "", "tok-alice">>}
        \cup {<<"Bearer", tok>> : tok \in Tokens}
HasWord2(hdr) == Len(hdr) >= 2 /\ hdr[2] # ""

(***************************************************************************)
(* Responses.  The last request served is kept with what the server and    *)
(* the environment did for it: op names the route; token is what the        *)
(* request carried and what the auth service said of it; auth is what       *)
(* authenticateToken decided and uid the identity it resolved; req is the   *)
(* request as the handler read it; svc is the error message the auth        *)
(* service gave the handler; failed holds the external calls of the request *)
(* that failed; calls lists the external calls it issued, in order; at is   *)
(* the clock when it was served.                                            *)
(***************************************************************************)
NoBody == [t |-> "undefined"]

Reply(status, error, body, calls) ==
    [status |-> status, error |-> error, body |-> body, calls |-> calls]

Response(op, token, auth, uid, req, svc, failed, r) ==
    [op |-> op, token |-> token, auth |-> auth, uid |-> uid, req |-> req, svc |-> svc,
     failed |-> failed, status |-> r.status, error |-> r.error, body |-> r.body,
     calls |-> r.calls, at |-> now]

(***************************************************************************)
(* The auth service (supabase.auth).  fault is what the environment does    *)
(* to the call: "none", "error" (the service answers with an error),        *)
(* "nouser" (getUser answers with neither error nor user) or "throw" (the   *)
(* promise rejects).                                                        *)
(***************************************************************************)
AuthFaults == {"none", "error", "throw"}
GetUserFaults == {"none", "error", "nouser", "throw"}

\* supabase.auth.getUser(token): {data: {user}, error}
getUser(tok, fault) ==
    IF fault = "throw" THEN [thrown |-> TRUE, error |-> "", user |-> NoUser]
    ELSE IF fault = "error"
        THEN [thrown |-> FALSE, error |-> "service unavailable", user |-> NoUser]
    ELSE IF fault = "nouser" THEN [thrown |-> FALSE, error |-> "", user |-> NoUser]
    ELSE IF TokenOwner(tok) = NoUser \/ credentials[TokenOwner(tok)] = NoCred
        THEN [thrown |-> FALSE, error |-> "invalid JWT", user |-> NoUser]
    ELSE [thrown |-> FALSE, error |-> "", user |-> TokenOwner(tok)]

\* A sign-up that answers a registered email with its user and no error.
signUpAgain(email, password, fault) ==
    IF fault = "throw" THEN [thrown |-> TRUE, error |-> "", user |-> NoUser]
    ELSE IF fault = "error"
        THEN [thrown |-> FALSE, error |-> "Signup is disabled", user |-> NoUser]
    ELSE IF email \notin Emails
        THEN [thrown |-> FALSE, error |-> "Email address is invalid", user |-> NoUser]
    ELSE [thrown |-> FALSE, error |-> "", user |-> email]

\* supabase.auth.signUp({email, password}): {data: {user, session}, error}
signUp(email, password, fault) ==
    IF fault = "throw" THEN [thrown |-> TRUE, error |-> "", user |-> NoUser]
    ELSE IF fault = "error"
        THEN [thrown |-> FALSE, error |-> "Signup is disabled", user |-> NoUser]
    ELSE IF email \notin Emails
        THEN [thrown |-> FALSE, error |-> "Email address is invalid", user |-> NoUser]
    ELSE IF credentials[email] # NoCred
        THEN [thrown |-> FALSE, error |-> "User already registered", user |-> NoUser]
    ELSE [thrown |-> FALSE, error |-> "", user |-> email]

\* supabase.auth.signInWithPassword({email, password})
signInWithPassword(email, password, fault) ==
    IF fault = "throw" THEN [thrown |-> TRUE, error |-> "", user |-> NoUser]
    ELSE IF fault = "error"
        THEN [thrown |-> FALSE, error |-> "Email not confirmed", user |-> NoUser]
    ELSE IF email \notin Emails \/ credentials[email] = NoCred
        THEN [thrown |-> FALSE, error |-> "No user with this email", user |-> NoUser]
    ELSE IF credentials[email] # password
        THEN [thrown |-> FALSE, error |-> "Wrong password", user |-> NoUser]
    ELSE [thrown |-> FALSE, error |-> "", user |-> email]

(***************************************************************************)
(* authenticateToken: the middleware in front of every protected route.     *)
(* Its result is either a response (401, 403) or next() with req.user.      *)
(***************************************************************************)
\* const token = authHeader && authHeader.split(' ')[1]
BearerOf(hdr) == IF Len(hdr) >= 2 THEN Str(hdr[2]) ELSE Undef

\* A middleware that answers 401 for a token the auth service rejects, as
\* the /profile handlers of backend/server.js do: not what part_000 does.
authenticateToken401(hdr, fault) ==
    LET token == BearerOf(hdr)
        got == getUser(token.v, fault)
    IN  IF Falsy(token)
            THEN [next |-> FALSE, auth |-> "missing", user |-> NoUser,
                  reply |-> Reply(401, "Access token required", NoBody, <<>>)]
        ELSE IF got.thrown \/ got.error # "" \/ got.user = NoUser
            THEN [next |-> FALSE, auth |-> "rejected", user |-> NoUser,
                  reply |-> Reply(401, "Invalid token", NoBody, <<"auth.getUser">>)]
        ELSE [next |-> TRUE, auth |-> "ok", user |-> got.user,
              reply |-> Reply(0, "", NoBody, <<"auth.getUser">>)]

authenticateToken(hdr, fault) ==
    LET token == BearerOf(hdr)
        got == getUser(token.v, fault)
    IN  IF Falsy(token)
            THEN [next |-> FALSE, auth |-> "missing", user |-> NoUser,
                  reply |-> Reply(401, "Access token required", NoBody, <<>>)]
        ELSE IF got.thrown
            THEN [next |-> FALSE, auth |-> "rejected", user |-> NoUser,
                  reply |-> Reply(403, "Token verification failed", NoBody,
                                  <<"auth.getUser">>)]
        ELSE IF got.error # "" \/ got.user = NoUser
            THEN [next |-> FALSE, auth |-> "rejected", user |-> NoUser,
                  reply |-> Reply(403, "Invalid or expired token", NoBody,
                                  <<"auth.getUser">>)]
        ELSE [next |-> TRUE, auth |-> "ok", user |-> got.user,
              reply |-> Reply(0, "", NoBody, <<"auth.getUser">>)]

(***************************************************************************)
(* Table calls (supabase.from(...)).  A call answers {data, error}; fault   *)
(* "error" is the datastore refusing or failing the call.                   *)
(***************************************************************************)
TableFaults == {"none", "error"}

\* .from('user_profiles').select(...).eq('id', id).single()
SelectProfile(id, fault) ==
    IF fault = "error" \/ profiles[id] = NoProfile
        THEN [data |-> NoProfile, error |-> TRUE]
        ELSE [data |-> profiles[id], error |-> FALSE]

(***************************************************************************)
(* POST /api/auth/signup                                                    *)
(***************************************************************************)
\* A role check that takes any text for a role.
AnyTextRole(role) == role.t = "string"

\* ['traveller', 'staff'].includes(role)
ValidRole(role) == role.t = "string" /\ role.v \in {"traveller", "staff"}

SignupFieldsMissing(body) ==
    Falsy(body.email) \/ Falsy(body.password) \/ Falsy(body.name)
        \/ Falsy(body.phone) \/ Falsy(body.role)

PostAuthSignup(body, authFault, insertFault) ==
    LET auth == signUp(body.email.v, body.password.v, authFault)
        same == [credentials |-> credentials, profiles |-> profiles, svc |-> ""]
        created == [credentials EXCEPT ![auth.user] = body.password.v]
    IN  IF SignupFieldsMissing(body)
            THEN same @@ [reply |-> Reply(400, "All fields are required", NoBody, <<>>)]
        ELSE IF ~ValidRole(body.role)
            THEN same @@ [reply |-> Reply(400, "Invalid role", NoBody, <<>>)]
        ELSE IF auth.thrown
            THEN same @@ [reply |-> Reply(500, "Internal server error", NoBody,
                                          <<"auth.signUp">>)]
        ELSE IF auth.error # ""
            THEN [credentials |-> credentials, profiles |-> profiles,
                  svc |-> auth.error,
                  reply |-> Reply(400, auth.error, NoBody, <<"auth.signUp">>)]
        ELSE IF insertFault = "error"
            THEN [credentials |-> created, profiles |-> profiles, svc |-> "",
                  reply |-> Reply(500, "Failed to create user profile", NoBody,
                                  <<"auth.signUp", "user_profiles.insert">>)]
        ELSE [credentials |-> created,
              profiles |-> [profiles EXCEPT ![auth.user] = body.role.v],
              svc |-> "",
              reply |-> Reply(201, "",
                              [id |-> auth.user, role |-> body.role.v,
                               session |-> AccessToken(auth.user)],
                              <<"auth.signUp", "user_profiles.insert">>)]

(***************************************************************************)
(* POST /api/auth/login                                                     *)
(***************************************************************************)
\* The answer of backend/server.js to a failed sign-in: the service's message.
LoginRejectedWithMessage(authError) == Reply(401, authError, NoBody,
                                             <<"auth.signInWithPassword">>)

\* if (authError) return res.status(401).json({ error: 'Invalid credentials' })
LoginRejected(authError) == Reply(401, "Invalid credentials", NoBody,
                                  <<"auth.signInWithPassword">>)

PostAuthLogin(body, authFault, selectFault) ==
    LET auth == signInWithPassword(body.email.v, body.password.v, authFault)
        profile == SelectProfile(auth.user, selectFault)
    IN  IF Falsy(body.email) \/ Falsy(body.password)
            THEN [svc |-> "",
                  reply |-> Reply(400, "Email and password are required", NoBody, <<>>)]
        ELSE IF auth.thrown
            THEN [svc |-> "",
                  reply |-> Reply(500, "Internal server error", NoBody,
                                  <<"auth.signInWithPassword">>)]
        ELSE IF auth.error # ""
            THEN [svc |-> auth.error, reply |-> LoginRejected(auth.error)]
        ELSE IF profile.error
            THEN [svc |-> "",
                  reply |-> Reply(500, "Failed to fetch user profile", NoBody,
                                  <<"auth.signInWithPassword", "user_profiles.select">>)]
        ELSE [svc |-> "",
              reply |-> Reply(200, "",
                              [id |-> auth.user, role |-> profile.data,
                               session |-> AccessToken(auth.user)],
                              <<"auth.signInWithPassword", "user_profiles.select">>)]

(***************************************************************************)
(* POST /api/auth/logout                                                    *)
(***************************************************************************)
PostAuthLogout(user, signOutFault) ==
    IF signOutFault = "throw"
        THEN Reply(500, "Internal server error", NoBody, <<"auth.signOut">>)
    ELSE IF signOutFault = "error"
        THEN Reply(500, "Logout failed", NoBody, <<"auth.signOut">>)
    ELSE Reply(200, "", [success |-> TRUE], <<"auth.signOut">>)

(***************************************************************************)
(* Strings the code looks inside, as sequences of characters.               *)
(***************************************************************************)
LowerCs == <<"a","b","c","d","e","f","g","h","i","j","k","l","m",
             "n","o","p","q","r","s","t","u","v","w","x","y","z">>
UpperCs == <<"A","B","C","D","E","F","G","H","I","J","K","L","M",
             "N","O","P","Q","R","S","T","U","V","W","X","Y","Z">>
DigitCs == <<"0","1","2","3","4","5","6","7","8","9">>

Range(f) == {f[i] : i \in DOMAIN f}
IndexIn(cs, c) == CHOOSE i \in DOMAIN cs : cs[i] = c

\* String.prototype.toLowerCase / toUpperCase
toLowerCase(s) ==
    [i \in 1..Len(s) |->
        IF s[i] \in Range(UpperCs) THEN LowerCs[IndexIn(UpperCs, s[i])] ELSE s[i]]
toUpperCase(s) ==
    [i \in 1..Len(s) |->
        IF s[i] \in Range(LowerCs) THEN UpperCs[IndexIn(LowerCs, s[i])] ELSE s[i]]

\* String.prototype.includes(needle)
includes(hay, needle) ==
    \E i \in 0..(Len(hay) - Len(needle)) : SubSeq(hay, i + 1, i + Len(needle)) = needle

\* String.prototype.substr(start, length)
substr(s, start, length) ==
    SubSeq(s, start + 1, IF start + length < Len(s) THEN start + length ELSE Len(s))

\* Every enumeration of the set S, and those in descending order of key:
\* the orders in which a query may answer its rows.
Orders(S) ==
    {o \in [1..Cardinality(S) -> S] : \A i, j \in DOMAIN o : i # j => o[i] # o[j]}
DescOrders(S, key) ==
    {o \in Orders(S) : \A i, j \in DOMAIN o : i < j => key[o[i]] >= key[o[j]]}

(***************************************************************************)
(* Table vehicles.  No route writes any column but status (and             *)
(* updated_at), so the other columns are those of the seeded rows.          *)
(***************************************************************************)
VehicleIds == {"v1", "v2"}
GhostVehicle == "v9"          \* an id no vehicles row has
route_name(v) ==
    IF v = "v1"
        THEN <<"D","o","w","n","t","o","w","n"," ","E","x","p","r","e","s","s">>
        ELSE <<"A","i","r","p","o","r","t"," ","S","h","u","t","t","l","e">>
vehicle_number(v) == IF v = "v1" THEN "KA-01" ELSE "KA-02"
vehicle_created_at(v) == IF v = "v1" THEN 1000 ELSE 2000

\* .from('vehicles').select(...).eq('id', id).single()
SelectVehicle(id, fault) ==
    IF fault = "error" \/ id \notin VehicleIds
        THEN [found |-> FALSE, id |-> id]
        ELSE [found |-> TRUE, id |-> id]

\* .from('vehicles').update({status: 'active', ...}).eq('id', id)
UpdateVehicleActive(id, fault) ==
    IF fault = "error" \/ id \notin VehicleIds
        THEN vehicles
        ELSE [vehicles EXCEPT ![id] = "active"]

(***************************************************************************)
(* Table vehicle_locations.                                                 *)
(***************************************************************************)
LocationRows(id) == {i \in 1..Len(locations) : locations[i].vehicle_id = id}
LocationTime(i) == locations[i].created_at

\* GET /api/vehicles/:id/location.  order is the order in which the query
\* answered the vehicle's rows (created_at descending), limit 1.
GetVehicleLocation(id, order, fault) ==
    IF fault = "error"
        THEN Reply(500, "Failed to fetch vehicle location", NoBody,
                   <<"vehicle_locations.select">>)
    ELSE IF Len(order) = 0
        THEN Reply(404, "Vehicle location not found", NoBody,
                   <<"vehicle_locations.select">>)
    ELSE Reply(200, "",
               [vehicleId |-> id,
                latitude |-> locations[order[1]].latitude,
                longitude |-> locations[order[1]].longitude,
                timestamp |-> locations[order[1]].created_at],
               <<"vehicle_locations.select">>)

\* value || null
OrNull(x) == IF Falsy(x) THEN Undef ELSE x

\* GET /api/vehicles.  order is the order of the vehicle rows (created_at
\* descending); first[v] is the row the embedded current_location lists
\* first for v (the embed states no order), 0 when v has no row.
VehicleView(v, first) ==
    [id |-> v, number |-> vehicle_number(v), status |-> vehicles[v],
     lat |-> IF first = 0 THEN Undef ELSE OrNull(Num(locations[first].latitude)),
     lng |-> IF first = 0 THEN Undef ELSE OrNull(Num(locations[first].longitude)),
     lastUpdated |-> IF first = 0 THEN Undef
                    ELSE OrNull([t |-> "timestamp", v |-> locations[first].updated_at])]

GetVehicles(order, first, fault) ==
    IF fault = "error"
        THEN Reply(500, "Failed to fetch vehicles", NoBody, <<"vehicles.select">>)
        ELSE Reply(200, "",
                   [i \in 1..Len(order) |-> VehicleView(order[i], first[order[i]])],
                   <<"vehicles.select">>)

\* A role check that lets every registered role through.
IsRegistered(profileData) == profileData \in Roles

\* Staff only: POST /api/vehicles/:id/location

\* profileData.role !== 'staff' is refused
IsStaff(profileData) == profileData = "staff"

\* if (!latitude || !longitude)
CoordinatesMissing(body) == Falsy(body.latitude) \/ Falsy(body.longitude)

\* const { latitude, longitude, speed = 0, heading = 0 } = req.body
Default0(x) == IF x.t = "undefined" THEN 0 ELSE x.v

\* A row that records the route's id, the vehicle's, as the writer.
LocationRowByVehicle(id, body, user) ==
    [vehicle_id |-> id, latitude |-> body.latitude.v, longitude |-> body.longitude.v,
     speed |-> Default0(body.speed), heading |-> Default0(body.heading),
     updated_by |-> id, created_at |-> now, updated_at |-> now]

LocationRow(id, body, user) ==
    [vehicle_id |-> id, latitude |-> body.latitude.v, longitude |-> body.longitude.v,
     speed |-> Default0(body.speed), heading |-> Default0(body.heading),
     updated_by |-> user, created_at |-> now, updated_at |-> now]

PostVehicleLocation(user, id, body, selectFault, insertFault, updateFault) ==
    LET profile == SelectProfile(user, selectFault)
        same == [locations |-> locations, vehicles |-> vehicles]
        row == LocationRow(id, body, user)
    IN  IF profile.data = NoProfile      \* profileData is null: TypeError, caught
            THEN same @@ [reply |-> Reply(500, "Internal server error", NoBody,
                                          <<"user_profiles.select">>)]
        ELSE IF ~IsStaff(profile.data)
            THEN same @@ [reply |-> Reply(403, "Only staff can update vehicle locations",
                                          NoBody, <<"user_profiles.select">>)]
        ELSE IF CoordinatesMissing(body)
            THEN same @@ [reply |-> Reply(400, "Latitude and longitude are required",
                                          NoBody, <<"user_profiles.select">>)]
        ELSE IF insertFault = "error"
            THEN same @@ [reply |-> Reply(500, "Failed to update vehicle location", NoBody,
                              <<"user_profiles.select", "vehicle_locations.insert">>)]
        ELSE [locations |-> Append(locations, row),
              vehicles |-> UpdateVehicleActive(id, updateFault),
              reply |-> Reply(200, "",
                              [vehicleId |-> id, latitude |-> row.latitude,
                               longitude |-> row.longitude, timestamp |-> row.created_at],
                              <<"user_profiles.select", "vehicle_locations.insert",
                                "vehicles.update">>)]

(***************************************************************************)
(* Time.  The clock counts milliseconds; a calendar day (of the ISO, UTC    *)
(* date that toISOString gives) is DayMs of them.                           *)
(***************************************************************************)
DayMs == 24 * 60 * 60 * 1000

\* new Date().toISOString().split('T')[0], as the number of the day
IsoDate(ms) == ms \div DayMs
\* the instant the datastore reads from  <date> + 'T00:00:00'
DayStart(date) == date * DayMs
\* the instant the datastore reads from  <date> + 'T23:59:59'
DayLastSecond(date) == date * DayMs + (23 * 3600 + 59 * 60 + 59) * 1000

(***************************************************************************)
(* Ticket identifiers.  Math.random() is a double in [0, 1); the model      *)
(* holds it as the digits toString(36) writes after "0." (none for 0).      *)
(***************************************************************************)
RECURSIVE ToDecimal(_)
\* `${Date.now()}`
ToDecimal(n) ==
    IF n < 10 THEN <<DigitCs[n + 1]>>
    ELSE ToDecimal(n \div 10) \o <<DigitCs[(n % 10) + 1]>>

\* Number.prototype.toString(36) of a double in [0, 1)
toString36(fraction) == IF fraction = <<>> THEN <<"0">> ELSE <<"0", ".">> \o fraction

\* `TKT-${Date.now()}-${Math.random().toString(36).substr(2, 6).toUpperCase()}`
TicketId(ms, random) ==
    <<"T", "K", "T", "-">> \o ToDecimal(ms) \o <<"-">>
        \o toUpperCase(substr(toString36(random), 2, 6))

(***************************************************************************)
(* Table tickets.                                                           *)
(***************************************************************************)
\* A role check that only asks for a profile.
HasProfile(profileData) == profileData # NoProfile

\* profileData.role !== 'traveller' is refused
IsTraveller(profileData) == profileData = "traveller"

BookingFieldsMissing(body) ==
    Falsy(body.vehicleId) \/ Falsy(body.fromLocation) \/ Falsy(body.toLocation)
        \/ Falsy(body.fare)

TicketRow(ticketId, user, body) ==
    [ticket_id |-> ticketId, user_id |-> user, vehicle_id |-> body.vehicleId.v,
     from_location |-> body.fromLocation.v, to_location |-> body.toLocation.v,
     fare_amount |-> body.fare.v, booking_status |-> "confirmed",
     travel_date |-> IsoDate(now), created_at |-> now, updated_at |-> now]

\* POST /api/tickets/book
PostTicketsBook(user, body, random, selectFault, vehicleFault, insertFault) ==
    LET profile == SelectProfile(user, selectFault)
        vehicleData == SelectVehicle(body.vehicleId.v, vehicleFault)
        ticketId == TicketId(now, random)
        row == TicketRow(ticketId, user, body)
    IN  IF BookingFieldsMissing(body)
            THEN [tickets |-> tickets,
                  reply |-> Reply(400, "All booking details are required", NoBody, <<>>)]
        ELSE IF profile.data = NoProfile      \* profileData is null: TypeError, caught
            THEN [tickets |-> tickets,
                  reply |-> Reply(500, "Internal server error", NoBody,
                                  <<"user_profiles.select">>)]
        ELSE IF ~IsTraveller(profile.data)
            THEN [tickets |-> tickets,
                  reply |-> Reply(403, "Only travellers can book tickets", NoBody,
                                  <<"user_profiles.select">>)]
        ELSE IF insertFault = "error"
            THEN [tickets |-> tickets,
                  reply |-> Reply(500, "Failed to book ticket", NoBody,
                                  <<"user_profiles.select", "vehicles.select",
                                    "tickets.insert">>)]
        ELSE IF ~vehicleData.found            \* vehicleData is null: TypeError, caught
            THEN [tickets |-> Append(tickets, row),
                  reply |-> Reply(500, "Internal server error", NoBody,
                                  <<"user_profiles.select", "vehicles.select",
                                    "tickets.insert">>)]
        ELSE [tickets |-> Append(tickets, row),
              reply |-> Reply(201, "",
                              [id |-> ticketId,
                               vehicleNumber |-> vehicle_number(vehicleData.id),
                               fare |-> body.fare.v, bookedAt |-> row.created_at,
                               status |-> "confirmed"],
                              <<"user_profiles.select", "vehicles.select",
                                "tickets.insert">>)]

\* The select without its .eq('user_id', ...) filter.
AllTicketRows(id) == 1..Len(tickets)

\* .from('tickets').select(...).eq('user_id', id)
TicketRowsOf(id) == {i \in 1..Len(tickets) : tickets[i].user_id = id}
TicketTime(i) == tickets[i].created_at

TicketView(i) ==
    [id |-> tickets[i].ticket_id, vehicleNumber |-> vehicle_number(tickets[i].vehicle_id),
     from |-> tickets[i].from_location, to |-> tickets[i].to_location,
     fare |-> tickets[i].fare_amount, bookedAt |-> tickets[i].created_at,
     travelDate |-> tickets[i].travel_date, status |-> tickets[i].booking_status]

\* GET /api/tickets.  order is the order in which the query answered the
\* caller's rows (created_at descending).
GetTickets(order, fault) ==
    IF fault = "error"
        THEN Reply(500, "Failed to fetch tickets", NoBody, <<"tickets.select">>)
    ELSE IF \E i \in Range(order) : tickets[i].vehicle_id \notin VehicleIds
        \* ticket.vehicle is null: TypeError, caught
        THEN Reply(500, "Internal server error", NoBody, <<"tickets.select">>)
    ELSE Reply(200, "", [k \in 1..Len(order) |-> TicketView(order[k])],
               <<"tickets.select">>)

(***************************************************************************)
(* GET /api/routes/plan                                                     *)
(***************************************************************************)
\* .from('vehicles').select('*').eq('status', 'active')
ActiveVehicles == {v \in VehicleIds : vehicles[v] = "active"}

\* A filter that compares the route name as stored with the lower-cased query.
ServesJourneyCased(v, from, to) ==
    \/ includes(route_name(v), toLowerCase(from))
    \/ includes(route_name(v), toLowerCase(to))

\* route.route_name.toLowerCase().includes(from.toLowerCase()) || ...(to...)
ServesJourney(v, from, to) ==
    \/ includes(toLowerCase(route_name(v)), toLowerCase(from))
    \/ includes(toLowerCase(route_name(v)), toLowerCase(to))

\* data.filter(...): the rows of data that serve the journey, in data's order
RECURSIVE relevantRoutes(_, _, _)
relevantRoutes(data, from, to) ==
    IF data = <<>> THEN <<>>
    ELSE (IF ServesJourney(Head(data), from, to) THEN <<Head(data)>> ELSE <<>>)
            \o relevantRoutes(Tail(data), from, to)

RouteView(v) == [id |-> v, vehicleNumber |-> vehicle_number(v), route |-> route_name(v)]

\* data is the active vehicle rows in the order the query answered them.
GetRoutesPlan(query, data, fault) ==
    LET routes == relevantRoutes(data, query.from.v, query.to.v)
    IN  IF Falsy(query.from) \/ Falsy(query.to)
            THEN Reply(400, "From and to locations are required", NoBody, <<>>)
        ELSE IF fault = "error"
            THEN Reply(500, "Failed to fetch routes", NoBody, <<"vehicles.select">>)
        ELSE Reply(200, "",
                   [from |-> query.from.v, to |-> query.to.v,
                    routes |-> [k \in 1..Len(routes) |-> RouteView(routes[k])],
                    totalOptions |-> Len(routes)],
                   <<"vehicles.select">>)

(***************************************************************************)
(* GET /api/staff/stats                                                     *)
(***************************************************************************)
\* .gte('created_at', today + 'T00:00:00').lt('created_at', today + 'T23:59:59')
TodaysTickets(today) ==
    {i \in 1..Len(tickets) :
        /\ tickets[i].created_at >= DayStart(today)
        /\ tickets[i].created_at < DayLastSecond(today)}

RECURSIVE SumFares(_)
\* ticketStats.reduce((sum, ticket) => sum + ticket.fare_amount, 0)
SumFares(rows) ==
    IF rows = {} THEN 0
    ELSE LET i == CHOOSE j \in rows : TRUE
         IN  tickets[i].fare_amount + SumFares(rows \ {i})

\* Estimate based on avg capacity
AvgCapacity == 18

GetStaffStats(user, selectFault, ticketFault, countFault) ==
    LET profile == SelectProfile(user, selectFault)
        today == IsoDate(now)
        ticketStats == TodaysTickets(today)
        totalPassengers == IF ticketFault = "error" THEN 0 ELSE Cardinality(ticketStats)
        totalRevenue == IF ticketFault = "error" THEN 0 ELSE SumFares(ticketStats)
    IN  IF profile.data = NoProfile      \* profileData is null: TypeError, caught
            THEN Reply(500, "Internal server error", NoBody, <<"user_profiles.select">>)
        ELSE IF ~IsStaff(profile.data)
            THEN Reply(403, "Only staff can access these stats", NoBody,
                       <<"user_profiles.select">>)
        ELSE Reply(200, "",
                   [passengers |-> totalPassengers, revenue |-> totalRevenue,
                    trips |-> totalPassengers \div AvgCapacity,
                    activeVehicles |-> IF countFault = "error" THEN 0
                                       ELSE Cardinality(ActiveVehicles)],
                   <<"user_profiles.select", "tickets.select", "vehicles.select">>)

(***************************************************************************)
(* The routes as actions.  Each serves one request: the inputs are the      *)
(* request and what the environment does to each external call.  A route    *)
(* behind authenticateToken runs its handler only after next().             *)
(***************************************************************************)
Tables == <<profiles, vehicles, locations, tickets>>

\* The Authorization header of a request with what the environment does to
\* the getUser call it leads to (none is made without a token).
Presented ==
    {<<hdr, "none">> : hdr \in {h \in AuthHeaders : ~HasWord2(h)}}
        \cup {<<hdr, f>> : hdr \in {h \in AuthHeaders : HasWord2(h)}, f \in GetUserFaults}

\* The token a request carries, as the auth service sees it.
TokenSent(hdr, fault) ==
    IF ~HasWord2(hdr) THEN "absent"
    ELSE LET got == getUser(hdr[2], fault)
         IN  IF got.thrown THEN "thrown"
             ELSE IF got.error # "" THEN "error"
             ELSE IF got.user = NoUser THEN "nouser"
             ELSE "user"

\* The calls among those issued that the environment made fail.
Failed(faults, calls) ==
    {f[1] : f \in {g \in faults : g[2] # "none" /\ \E i \in DOMAIN calls : calls[i] = g[1]}}

\* What the environment does to the external calls of one request.  Where a
\* second failing call cannot change what the handler does (it has answered
\* at the first, or answers as for the second alone), a request meets at
\* most one; for the staff stats every combination is drawn.
AtMostOne(plans) == {p \in plans : Cardinality({i \in DOMAIN p : p[i] # "none"}) <= 1}
AuthThenTable == AtMostOne({<<a, t>> : a \in AuthFaults, t \in TableFaults})
ThreeTables == [1..3 -> TableFaults]

\* What the handler answered after the middleware called next().
Served(op, token, a, req, faults, handlerReply) ==
    Response(op, token, a.auth, a.user, req, "", Failed(faults, handlerReply.calls),
             [handlerReply EXCEPT !.calls = a.reply.calls \o @])

\* authenticateToken answered the request itself: the handler never runs.
Refused(op, token, a) ==
    /\ ~a.next
    /\ resp' = Response(op, token, a.auth, a.user, NoBody, "", {}, a.reply)
    /\ UNCHANGED <<credentials, profiles, vehicles, locations, tickets, now>>

Signup(bodies) ==
    \E body \in bodies, plan \in AuthThenTable :
        LET authFault == plan[1]
            insertFault == plan[2]
            r == PostAuthSignup(body, authFault, insertFault)
        IN  /\ credentials' = r.credentials
            /\ profiles' = r.profiles
            /\ resp' = Response("signup", "absent", "public", NoUser, body, r.svc,
                                Failed({<<"auth.signUp", authFault>>,
                                        <<"user_profiles.insert", insertFault>>},
                                       r.reply.calls),
                                r.reply)
            /\ UNCHANGED <<vehicles, locations, tickets, now>>

Login(bodies) ==
    \E body \in bodies, plan \in AuthThenTable :
        LET authFault == plan[1]
            selectFault == plan[2]
            r == PostAuthLogin(body, authFault, selectFault)
        IN  /\ resp' = Response("login", "absent", "public", NoUser, body, r.svc,
                                Failed({<<"auth.signInWithPassword", authFault>>,
                                        <<"user_profiles.select", selectFault>>},
                                       r.reply.calls),
                                r.reply)
            /\ UNCHANGED <<credentials, Tables, now>>

Logout ==
    \E cred \in Presented :
        LET hdr == cred[1]
            getFault == cred[2]
            a == authenticateToken(hdr, getFault)
            token == TokenSent(hdr, getFault)
        IN  \/ Refused("logout", token, a)
            \/ /\ a.next
               /\ \E signOutFault \in AuthFaults :
                    resp' = Served("logout", token, a, NoBody,
                                   {<<"auth.signOut", signOutFault>>},
                                   PostAuthLogout(a.user, signOutFault))
               /\ UNCHANGED <<credentials, Tables, now>>

VehiclesList ==
    \E cred \in Presented :
        LET hdr == cred[1]
            getFault == cred[2]
            a == authenticateToken(hdr, getFault)
            token == TokenSent(hdr, getFault)
        IN  \/ Refused("vehicles", token, a)
            \/ /\ a.next
               /\ \E fault \in TableFaults,
                     order \in DescOrders(VehicleIds, [v \in VehicleIds |-> vehicle_created_at(v)]),
                     first \in [VehicleIds -> 0..Len(locations)] :
                    /\ \A v \in VehicleIds :
                        IF LocationRows(v) = {} THEN first[v] = 0
                        ELSE first[v] \in LocationRows(v)
                    /\ resp' = Served("vehicles", token, a, NoBody,
                                      {<<"vehicles.select", fault>>},
                                      GetVehicles(order, first, fault))
               /\ UNCHANGED <<credentials, Tables, now>>

LocationGet(ids) ==
    \E cred \in Presented :
        LET hdr == cred[1]
            getFault == cred[2]
            a == authenticateToken(hdr, getFault)
            token == TokenSent(hdr, getFault)
        IN  \/ Refused("getLocation", token, a)
            \/ /\ a.next
               /\ \E fault \in TableFaults, id \in ids :
                    \E order \in DescOrders(LocationRows(id), [i \in LocationRows(id) |-> LocationTime(i)]) :
                        resp' = Served("getLocation", token, a, [id |-> id],
                                       {<<"vehicle_locations.select", fault>>},
                                       GetVehicleLocation(id, order, fault))
               /\ UNCHANGED <<credentials, Tables, now>>

LocationPost(ids, bodies) ==
    \E cred \in Presented :
        LET hdr == cred[1]
            getFault == cred[2]
            a == authenticateToken(hdr, getFault)
            token == TokenSent(hdr, getFault)
        IN  \/ Refused("postLocation", token, a)
            \/ /\ a.next
               /\ \E id \in ids, body \in bodies, plan \in AtMostOne(ThreeTables) :
                    LET selectFault == plan[1]
                        insertFault == plan[2]
                        updateFault == plan[3]
                        r == PostVehicleLocation(a.user, id, body, selectFault,
                                                 insertFault, updateFault)
                    IN  /\ Len(r.locations) <= MaxLocations
                        /\ locations' = r.locations
                        /\ vehicles' = r.vehicles
                        /\ resp' = Served("postLocation", token, a,
                                          [id |-> id, body |-> body],
                                          {<<"user_profiles.select", selectFault>>,
                                           <<"vehicle_locations.insert", insertFault>>,
                                           <<"vehicles.update", updateFault>>},
                                          r.reply)
               /\ UNCHANGED <<credentials, profiles, tickets, now>>

TicketsBook(bodies, randoms) ==
    \E cred \in Presented :
        LET hdr == cred[1]
            getFault == cred[2]
            a == authenticateToken(hdr, getFault)
            token == TokenSent(hdr, getFault)
        IN  \/ Refused("book", token, a)
            \/ /\ a.next
               /\ \E body \in bodies, random \in randoms, plan \in AtMostOne(ThreeTables) :
                    LET selectFault == plan[1]
                        vehicleFault == plan[2]
                        insertFault == plan[3]
                        r == PostTicketsBook(a.user, body, random, selectFault,
                                             vehicleFault, insertFault)
                    IN  /\ Len(r.tickets) <= MaxTickets
                        /\ tickets' = r.tickets
                        /\ resp' = Served("book", token, a, body,
                                          {<<"user_profiles.select", selectFault>>,
                                           <<"vehicles.select", vehicleFault>>,
                                           <<"tickets.insert", insertFault>>},
                                          r.reply)
               /\ UNCHANGED <<credentials, profiles, vehicles, locations, now>>

TicketsList ==
    \E cred \in Presented :
        LET hdr == cred[1]
            getFault == cred[2]
            a == authenticateToken(hdr, getFault)
            token == TokenSent(hdr, getFault)
        IN  \/ Refused("tickets", token, a)
            \/ /\ a.next
               /\ \E fault \in TableFaults,
                     order \in DescOrders(TicketRowsOf(a.user),
                                        [i \in TicketRowsOf(a.user) |-> TicketTime(i)]) :
                    resp' = Served("tickets", token, a, NoBody,
                                   {<<"tickets.select", fault>>},
                                   GetTickets(order, fault))
               /\ UNCHANGED <<credentials, Tables, now>>

RoutesPlan(queries) ==
    \E cred \in Presented :
        LET hdr == cred[1]
            getFault == cred[2]
            a == authenticateToken(hdr, getFault)
            token == TokenSent(hdr, getFault)
        IN  \/ Refused("plan", token, a)
            \/ /\ a.next
               /\ \E fault \in TableFaults, query \in queries,
                     data \in Orders(ActiveVehicles) :
                    resp' = Served("plan", token, a, query,
                                   {<<"vehicles.select", fault>>},
                                   GetRoutesPlan(query, data, fault))
               /\ UNCHANGED <<credentials, Tables, now>>

StaffStats ==
    \E cred \in Presented :
        LET hdr == cred[1]
            getFault == cred[2]
            a == authenticateToken(hdr, getFault)
            token == TokenSent(hdr, getFault)
        IN  \/ Refused("stats", token, a)
            \/ /\ a.next
               /\ \E plan \in ThreeTables :
                    LET selectFault == plan[1]
                        ticketFault == plan[2]
                        countFault == plan[3]
                    IN
                    resp' = Served("stats", token, a, NoBody,
                                   {<<"user_profiles.select", selectFault>>,
                                    <<"tickets.select", ticketFault>>,
                                    <<"vehicles.select", countFault>>},
                                   GetStaffStats(a.user, selectFault, ticketFault,
                                                 countFault))
               /\ UNCHANGED <<credentials, Tables, now>>

\* Time passes between requests.
Tick(instants) ==
    \E t \in instants :
        /\ t > now
        /\ now' = t
        /\ UNCHANGED <<credentials, Tables, resp>>

(***************************************************************************)
(* Requests the clients send.                                               *)
(***************************************************************************)
SignupBody(email, password, phone, role) ==
    [email |-> email, password |-> password, name |-> Str("Asha"), phone |-> phone,
     role |-> role]
SignupBodies ==
    {SignupBody(Str(e), Str(Password), Str("555"), Str(r)) : e \in Emails, r \in Roles}
    \cup {SignupBody(Str("alice@x"), Str(Password), Str("555"), Str("admin")),
          SignupBody(Str(""), Str(Password), Str("555"), Str("staff")),
          SignupBody(Str("alice@x"), Undef, Str("555"), Str("traveller")),
          SignupBody(Str("alice@x"), Str(Password), Str("555"), Undef)}

LoginBody(email, password) == [email |-> email, password |-> password]
LoginBodies ==
    {LoginBody(Str(e), Str(Password)) : e \in Emails \cup {"carol@x"}}
    \cup {LoginBody(Str("alice@x"), Str("pw-bad")),
          LoginBody(Undef, Str(Password)),
          LoginBody(Str("alice@x"), Str(""))}

LocationBody(latitude, longitude) ==
    [latitude |-> latitude, longitude |-> longitude, speed |-> Undef, heading |-> Undef]
LocationBodies ==
    {LocationBody(Num(12), Num(77)), LocationBody(Num(0), Num(77)),
     LocationBody(Num(12), Num(0)), LocationBody(Undef, Num(77)),
     LocationBody(Num(12), Undef)}

BookingBody(vehicleId, fromLocation, fare) ==
    [vehicleId |-> vehicleId, fromLocation |-> fromLocation,
     toLocation |-> Str("Airport"), fare |-> fare]
BookingBodies ==
    {BookingBody(Str("v1"), Str("Depot"), Num(20)),
     BookingBody(Undef, Str("Depot"), Num(20)),
     BookingBody(Str("v1"), Str(""), Num(20)),
     BookingBody(Str("v1"), Str("Depot"), Num(0))}

\* A typical Math.random(): 0.4fzyo82mvyr in base 36.
TypicalRandom == <<"4", "f", "z", "y", "o", "8", "2", "m", "v", "y", "r">>

Airport == <<"A", "i", "r", "p", "o", "r", "t">>
City == <<"C", "i", "t", "y">>
PlanQueries ==
    {[from |-> Text(Airport), to |-> Text(City)],
     [from |-> Undef, to |-> Text(City)],
     [from |-> Text(City), to |-> Text(<<>>)]}

(***************************************************************************)
(* The frontend (App.jsx): one page in one browser.  app holds the state    *)
(* of the App component (currentUser, vehicles), its refs (the map and its  *)
(* markers), the browser's localStorage and interval timers, the vehicle    *)
(* fetches in flight, and, for the properties, the last event and whether   *)
(* it issued a vehicle fetch.                                               *)
(***************************************************************************)
\* A refresh once a minute.
RefreshMinute == 60 * 1000

\* setInterval(..., 30000)
RefreshMs == 30 * 1000
StepMs == 15 * 1000

\* One element of the array GET /api/vehicles answers, or its absence.
Unlisted == [listed |-> FALSE, status |-> "", lat |-> Undef, lng |-> Undef]
Listed(status, lat, lng) == [listed |-> TRUE, status |-> status, lat |-> lat, lng |-> lng]
NoMarker == <<>>

\* The page before its first effect has run: useState(null), useState([]),
\* useRef(null), useRef({}).
ClosedPage(storage) ==
    [currentUser |-> NoUser, storage |-> storage, timers |-> {}, cleanup |-> 0,
     pending |-> 0, lastFetch |-> 0, issued |-> FALSE, event |-> "load",
     vehicles |-> [v \in VehicleIds |-> Unlisted],
     markers |-> [v \in VehicleIds |-> NoMarker], map |-> FALSE]

\* fetchVehicles(token), up to its await: the request is sent at instant t
fetchVehicles(a, t) ==
    [a EXCEPT !.pending = @ + 1, !.lastFetch = t, !.issued = TRUE]

\* const intervalId = setInterval(..., 30000); return () => clearInterval(intervalId)
setInterval(a, t) ==
    LET id == CHOOSE n \in 1..(Cardinality(a.timers) + 1) : \A x \in a.timers : x.id # n
    IN  [a EXCEPT !.timers = @ \cup {[id |-> id, due |-> t + RefreshMs]}, !.cleanup = id]

\* useEffect(..., [currentUser]): the cleanup of the last run, then the effect
PollingEffect(a, t) ==
    LET cleaned == [a EXCEPT !.timers = {x \in @ : x.id # a.cleanup}, !.cleanup = 0]
    IN  IF cleaned.currentUser # NoUser
            THEN setInterval(fetchVehicles(cleaned, t), t)
            ELSE cleaned

\* updateMapMarkers(vehicleList): vehicleMarkers.current after the forEach
updateMapMarkers(markers, vehicleList) ==
    [v \in VehicleIds |->
        IF /\ vehicleList[v].listed
           /\ vehicleList[v].status = "active"
           /\ ~Falsy(vehicleList[v].lat)
           /\ ~Falsy(vehicleList[v].lng)
            THEN <<vehicleList[v].lat.v, vehicleList[v].lng.v>>
            ELSE markers[v]]

\* useEffect(..., [currentUser, vehicles]): the map is created once a user is
\* logged in, and the markers are updated when there is a map
MapEffect(a) ==
    LET map == a.map \/ a.currentUser # NoUser
    IN  [a EXCEPT !.map = map,
                  !.markers = IF map THEN updateMapMarkers(@, a.vehicles) ELSE @]

\* setCurrentUser(user), the render it causes and the effects of that render
setCurrentUser(a, user, t) == MapEffect(PollingEffect([a EXCEPT !.currentUser = user], t))

\* The page loads: every state, ref and timer of the page before is gone, and
\* useEffect(..., []) restores the user saved in localStorage.
Mount(storage, t) ==
    IF storage # NoUser
        THEN setCurrentUser(ClosedPage(storage), storage, t)
        ELSE ClosedPage(storage)
NoApp == ClosedPage(NoUser)

(***************************************************************************)
(* The server against a datastore with no identity, no location and no      *)
(* ticket yet; of the seeded vehicles v1 is active.                        *)
(***************************************************************************)
Noon == 12 * 60 * 60 * 1000

\* A request taken apart from the rate limiter and from the sessions: the
\* limiter admits it, and neither store is followed.
Apart(A) == A /\ UNCHANGED <<window, sessions, app>>

(***************************************************************************)
(* The rate limiter, app.use('/api/', limiter), registered before every     *)
(* route: express-rate-limit with its in-memory store, a fixed window per   *)
(* client address.  window is the store's entry for one client address:     *)
(* the instant its window ends and the requests counted in it; passed       *)
(* counts, for the properties, the requests of the window the limiter let   *)
(* through to the routes.                                                   *)
(***************************************************************************)
WindowMs == 15 * 60 * 1000
RateLimitMax == 100

\* The limiter has seen no request; nobody has signed in.
NoWindow == [resetTime |-> 0, hits |-> 0, passed |-> 0]
NoSessions == [client |-> NoUser, live |-> {}]

\* store.increment(key) at instant t: a new window once the last has ended
Hit(w, t) ==
    IF t >= w.resetTime
        THEN [resetTime |-> t + WindowMs, hits |-> 1, passed |-> 0]
        ELSE [w EXCEPT !.hits = @ + 1]

\* A limiter whose max is read as the last request refused, not admitted.
OverLimitOffByOne(hits) == hits > RateLimitMax + 1

\* totalHits > max
OverLimit(hits) == hits > RateLimitMax

\* The limiter's own answer: no middleware after it and no route runs.
TooManyRequests(op) ==
    Response(op, "unread", "limited", NoUser, NoBody, "", {},
             Reply(429, "Too many requests, please try again later.", NoBody, <<>>))

\* A request to an /api/ path from the client address: A is the route.
Limited(op, A) ==
    LET w == Hit(window, now)
    IN  /\ w.hits <= RateLimitMax + MaxOverLimit
        /\ \/ /\ OverLimit(w.hits)
              /\ window' = w
              /\ resp' = TooManyRequests(op)
              /\ UNCHANGED <<credentials, Tables, now, sessions, app>>
           \/ /\ ~OverLimit(w.hits)
              /\ window' = [w EXCEPT !.passed = @ + 1]
              /\ A
              /\ UNCHANGED <<sessions, app>>

\* GET /api/health
Health ==
    /\ resp' = Response("health", "absent", "public", NoUser, NoBody, "", {},
                        Reply(200, "", [status |-> "OK"], <<>>))
    /\ UNCHANGED <<credentials, Tables, now>>

NoRequest ==
    Response("none", "absent", "public", NoUser, NoBody, "", {}, Reply(0, "", NoBody, <<>>))

Init ==
    /\ credentials = [e \in Emails |-> NoCred]
    /\ profiles = [e \in Emails |-> NoProfile]
    /\ vehicles = [v \in VehicleIds |-> IF v = "v1" THEN "active" ELSE "inactive"]
    /\ locations = <<>>
    /\ tickets = <<>>
    /\ now = Noon
    /\ resp = NoRequest
    /\ window = NoWindow
    /\ sessions = NoSessions
    /\ app = NoApp

Next ==
    \/ Apart(Signup(SignupBodies))
    \/ Apart(Login(LoginBodies))
    \/ Apart(Logout)
    \/ Apart(VehiclesList)
    \/ Apart(LocationGet({"v2", GhostVehicle}))
    \/ Apart(LocationPost({"v2"}, LocationBodies))
    \/ Apart(TicketsBook(BookingBodies, {TypicalRandom}))
    \/ Apart(TicketsList)
    \/ Apart(RoutesPlan(PlanQueries))
    \/ Apart(StaffStats)

Spec == Init /\ [][Next]_vars

(***************************************************************************)
(* The ticket desk: two registered identities, alice a traveller and bob a  *)
(* traveller or staff, book, list and count tickets while the clock runs    *)
(* to the last second of the day and into the next day.                     *)
(***************************************************************************)
LastSecond == DayMs - 500       \* 23:59:59.500 of the first day
NextNoon == DayMs + Noon        \* 12:00:00.000 of the second day
Instants == {LastSecond, NextNoon}

DeskBookingBodies == {BookingBody(Str("v1"), Str("Depot"), Num(f)) : f \in {20, 30}}

InitDesk ==
    /\ credentials = [e \in Emails |-> Password]
    /\ profiles \in {[e \in Emails |-> "traveller"],
                     [e \in Emails |-> IF e = "alice@x" THEN "traveller" ELSE "staff"]}
    /\ vehicles = [v \in VehicleIds |-> IF v = "v1" THEN "active" ELSE "inactive"]
    /\ locations = <<>>
    /\ tickets = <<>>
    /\ now = Noon
    /\ resp = NoRequest
    /\ window = NoWindow
    /\ sessions = NoSessions
    /\ app = NoApp

NextDesk ==
    \/ Apart(TicketsBook(DeskBookingBodies, {TypicalRandom}))
    \/ Apart(TicketsList)
    \/ Apart(StaffStats)
    \/ Apart(Tick(Instants))

SpecDesk == InitDesk /\ [][NextDesk]_vars

(***************************************************************************)
(* Ticket identifiers: one traveller books at the instants of the clock     *)
(* with the values Math.random() may give.                                  *)
(***************************************************************************)
\* Math.random() = 0.5 is "0.i" in base 36; Math.random() = 0 is "0".
HalfRandom == <<"i">>
ZeroRandom == <<>>
\* 0.0000z8 and a value whose digits are all decimal digits
SmallRandom == <<"0", "0", "0", "0", "z", "8">>
DigitsRandom == <<"1", "2", "3", "4", "5", "6", "7", "8">>
RandomDoubles == {TypicalRandom, HalfRandom, ZeroRandom, SmallRandom, DigitsRandom}

InitIds ==
    /\ credentials = [e \in Emails |-> Password]
    /\ profiles = [e \in Emails |-> "traveller"]
    /\ vehicles = [v \in VehicleIds |-> IF v = "v1" THEN "active" ELSE "inactive"]
    /\ locations = <<>>
    /\ tickets = <<>>
    /\ now = Noon
    /\ resp = NoRequest
    /\ window = NoWindow
    /\ sessions = NoSessions
    /\ app = NoApp

NextIds ==
    \/ Apart(TicketsBook({BookingBody(Str("v1"), Str("Depot"), Num(20))}, RandomDoubles))
    \/ Apart(Tick(Instants))

SpecIds == InitIds /\ [][NextIds]_vars

(***************************************************************************)
(* The route planner: registered identities plan journeys over vehicles     *)
(* seeded with any status, while staff reports positions.                   *)
(***************************************************************************)
Express == <<"E", "X", "P", "R", "E", "S", "S">>
Town == <<"t", "o", "w", "n">>
PlannerQueries ==
    {[from |-> Text(f), to |-> Text(t)] :
        f \in {Airport, City, Town, <<>>}, t \in {City, Express, Airport}}
    \cup {[from |-> Undef, to |-> Text(City)], [from |-> Text(Airport), to |-> Undef]}

InitPlanner ==
    /\ credentials = [e \in Emails |-> Password]
    /\ profiles = [e \in Emails |-> IF e = "alice@x" THEN "traveller" ELSE "staff"]
    /\ vehicles \in [VehicleIds -> {"active", "inactive"}]
    /\ locations = <<>>
    /\ tickets = <<>>
    /\ now = Noon
    /\ resp = NoRequest
    /\ window = NoWindow
    /\ sessions = NoSessions
    /\ app = NoApp

NextPlanner ==
    \/ Apart(RoutesPlan(PlannerQueries))
    \/ Apart(LocationPost(VehicleIds, {LocationBody(Num(12), Num(77))}))

SpecPlanner == InitPlanner /\ [][NextPlanner]_vars

(***************************************************************************)
(* The fleet: a staff member (bob) posts positions of the vehicles while    *)
(* the clock runs and the positions are read.                               *)
(***************************************************************************)
FleetBodies == {LocationBody(Num(12), Num(77)), LocationBody(Num(13), Num(78))}
FleetIds == VehicleIds \cup {GhostVehicle}

InitFleet ==
    /\ credentials = [e \in Emails |-> Password]
    /\ profiles = [e \in Emails |-> IF e = "alice@x" THEN "traveller" ELSE "staff"]
    /\ vehicles = [v \in VehicleIds |-> IF v = "v1" THEN "active" ELSE "inactive"]
    /\ locations = <<>>
    /\ tickets = <<>>
    /\ now = Noon
    /\ resp = NoRequest
    /\ window = NoWindow
    /\ sessions = NoSessions
    /\ app = NoApp

NextFleet ==
    \/ Apart(LocationPost(VehicleIds, FleetBodies))
    \/ Apart(VehiclesList)
    \/ Apart(LocationGet(FleetIds))
    \/ Apart(Tick({NextNoon}))

SpecFleet == InitFleet /\ [][NextFleet]_vars

(***************************************************************************)
(* The limiter: one client address sends requests to every /api/ route, up  *)
(* to the limit and beyond, while the clock runs past the end of a window.  *)
(***************************************************************************)
AfterWindow == Noon + WindowMs + 5 * 60 * 1000

InitLimiter ==
    /\ credentials = [e \in Emails |-> Password]
    /\ profiles = [e \in Emails |-> IF e = "alice@x" THEN "traveller" ELSE "staff"]
    /\ vehicles = [v \in VehicleIds |-> IF v = "v1" THEN "active" ELSE "inactive"]
    /\ locations = <<>>
    /\ tickets = <<>>
    /\ now = Noon
    /\ resp = NoRequest
    /\ window = NoWindow
    /\ sessions = NoSessions
    /\ app = NoApp

NextLimiter ==
    \/ Limited("health", Health)
    \/ Limited("signup", Signup({SignupBody(Str("alice@x"), Str(Password), Str("555"),
                                            Str("admin"))}))
    \/ Limited("login", Login({LoginBody(Str("alice@x"), Str("pw-bad"))}))
    \/ Limited("logout", Logout)
    \/ Limited("vehicles", VehiclesList)
    \/ Limited("getLocation", LocationGet({"v2"}))
    \/ Limited("postLocation", LocationPost({"v2"}, {LocationBody(Undef, Num(77))}))
    \/ Limited("book", TicketsBook({BookingBody(Undef, Str("Depot"), Num(20))},
                                   {TypicalRandom}))
    \/ Limited("tickets", TicketsList)
    \/ Limited("plan", RoutesPlan({[from |-> Text(Airport), to |-> Text(City)]}))
    \/ Limited("stats", StaffStats)
    \/ Apart(Tick({AfterWindow}))

SpecLimiter == InitLimiter /\ [][NextLimiter]_vars

(***************************************************************************)
(* The session held by the one supabase client of the process.  sessions    *)
(* records the identities whose session the auth service holds live, and    *)
(* the identity whose session the client keeps in memory.                   *)
(***************************************************************************)
\* supabase.auth.signInWithPassword, accepted: the service opens the user's
\* session and the client keeps it as its current session.
signInSession(s, user) == [client |-> user, live |-> s.live \cup {user}]

\* supabase.auth.signOut(), no argument: the service ends the session the
\* client currently keeps, and the client forgets it.
signOutSession(s) == [client |-> NoUser, live |-> s.live \ {s.client}]

\* The call was issued by the request answered r and the service accepted it.
Accepted(r, call) == call \in Range(r.calls) /\ call \notin r.failed /\ r.svc = ""

SessionsAfter(s, r) ==
    IF r.op = "login" /\ Accepted(r, "auth.signInWithPassword")
        THEN signInSession(s, r.req.email.v)
    ELSE IF r.op = "logout" /\ Accepted(r, "auth.signOut")
        THEN signOutSession(s)
    ELSE s

\* A request served by the process, with what it leaves in the client.
ThroughClient(A) ==
    A /\ sessions' = SessionsAfter(sessions, resp') /\ UNCHANGED <<window, app>>

SessionLogins ==
    {LoginBody(Str(e), Str(Password)) : e \in Emails}
        \cup {LoginBody(Str("alice@x"), Str("pw-bad"))}

InitSessions ==
    /\ credentials = [e \in Emails |-> Password]
    /\ profiles = [e \in Emails |-> IF e = "alice@x" THEN "traveller" ELSE "staff"]
    /\ vehicles = [v \in VehicleIds |-> IF v = "v1" THEN "active" ELSE "inactive"]
    /\ locations = <<>>
    /\ tickets = <<>>
    /\ now = Noon
    /\ resp = NoRequest
    /\ window = NoWindow
    /\ sessions = NoSessions
    /\ app = NoApp

NextSessions ==
    \/ ThroughClient(Login(SessionLogins))
    \/ ThroughClient(Logout)
    \/ ThroughClient(VehiclesList)

SpecSessions == InitSessions /\ [][NextSessions]_vars

(***************************************************************************)
(* The frontend alone: a page that is loaded, logged in and out of, whose   *)
(* timer fires and whose vehicle fetches are answered by the API.           *)
(***************************************************************************)
Browser(A) == A /\ UNCHANGED <<credentials, Tables, resp, window, sessions>>

\* The browser loads or reloads the page.
PageLoad ==
    /\ app' = [Mount(app.storage, now) EXCEPT !.event = "load"]
    /\ UNCHANGED now

\* handleLogin: the login form is rendered only while no user is logged in.
HandleLogin ==
    /\ app.currentUser = NoUser
    /\ \E user \in Emails, ok \in BOOLEAN :
        app' = IF ok
                THEN [setCurrentUser([app EXCEPT !.storage = user, !.issued = FALSE],
                                     user, now)
                        EXCEPT !.event = "login"]
                ELSE [app EXCEPT !.event = "login-failed", !.issued = FALSE]
    /\ UNCHANGED now

\* handleLogout: localStorage.clear(), then the page is reloaded.
HandleLogout ==
    /\ app.currentUser # NoUser
    /\ app' = [Mount(NoUser, now) EXCEPT !.event = "logout"]
    /\ UNCHANGED now

\* The interval timer comes due and its callback runs.
TimerFires ==
    /\ app.pending < MaxPending
    /\ \E x \in app.timers :
        /\ x.due = now
        /\ app' = [fetchVehicles(app, now)
                    EXCEPT !.timers = (@ \ {x}) \cup {[x EXCEPT !.due = @ + RefreshMs]},
                           !.event = "timer"]
    /\ UNCHANGED now

\* fetchVehicles after its await: setVehicles(data), or the catch.
FetchReturns(lists) ==
    /\ app.pending > 0
    /\ \/ \E data \in lists :
            app' = MapEffect([app EXCEPT !.pending = @ - 1, !.vehicles = data,
                                         !.issued = FALSE, !.event = "response"])
       \/ app' = [app EXCEPT !.pending = @ - 1, !.issued = FALSE, !.event = "failed"]
    /\ UNCHANGED now

\* Time passes, up to the instant the next timer is due.
AppTick ==
    /\ now + StepMs <= Noon + MaxTicks * StepMs
    /\ \A x \in app.timers : x.due >= now + StepMs
    /\ now' = now + StepMs
    /\ app' = [app EXCEPT !.issued = FALSE, !.event = "tick"]

\* Arrays the API may answer with: v1 in every condition, v2 absent or shown.
FrontLists ==
    {[v \in VehicleIds |-> IF v = "v1" THEN one ELSE two] :
        one \in {Unlisted, Listed("inactive", Num(12), Num(77)),
                 Listed("active", Undef, Undef), Listed("active", Num(12), Num(77)),
                 Listed("active", Num(13), Num(78))},
        two \in {Unlisted, Listed("active", Num(12), Num(77))}}

InitFrontend ==
    /\ credentials = [e \in Emails |-> Password]
    /\ profiles = [e \in Emails |-> IF e = "alice@x" THEN "traveller" ELSE "staff"]
    /\ vehicles = [v \in VehicleIds |-> IF v = "v1" THEN "active" ELSE "inactive"]
    /\ locations = <<>>
    /\ tickets = <<>>
    /\ now = Noon
    /\ resp = NoRequest
    /\ window = NoWindow
    /\ sessions = NoSessions
    /\ \E saved \in {NoUser, "alice@x"} : app = Mount(saved, Noon)

NextFrontend ==
    \/ Browser(PageLoad)
    \/ Browser(HandleLogin)
    \/ Browser(HandleLogout)
    \/ Browser(TimerFires)
    \/ Browser(FetchReturns(FrontLists))
    \/ Browser(AppTick)

SpecFrontend == InitFrontend /\ [][NextFrontend]_vars

(***************************************************************************)
(* Properties                                                               *)
(***************************************************************************)
ProtectedOps ==
    {"logout", "vehicles", "getLocation", "postLocation", "book", "tickets", "plan",
     "stats"}
TableCalls(calls) == {i \in DOMAIN calls : calls[i] # "auth.getUser"}

\* C1: on every endpoint behind authenticateToken, a request without a bearer
\* token is answered 401, a request whose token the auth service rejects
\* (error, no user, thrown exception) is answered 403, and in both cases the
\* handler does not run: no table call is issued and no table changes.
C1_Step ==
    (resp'.op \in ProtectedOps /\ resp'.token # "user") =>
        /\ resp'.token = "absent" => resp'.status = 401 /\ resp'.calls = <<>>
        /\ resp'.token \in {"error", "nouser", "thrown"} =>
            resp'.status = 403 /\ resp'.calls = <<"auth.getUser">>
        /\ TableCalls(resp'.calls) = {}
        /\ UNCHANGED <<credentials, Tables>>
C1_AuthGate == [][C1_Step]_vars

\* A booking with a token the auth service knows no user for was answered 403
\* while the caller named by the token is a registered traveller.
C1_Witness ==
    /\ resp.op = "book" /\ resp.token = "nouser" /\ resp.status = 403
    /\ profiles["alice@x"] = "traveller"
    /\ tickets = <<>>

\* C2 (as stated): a POST of a location by an authenticated caller whose
\* profile role is traveller is always answered 403.
C2_Original ==
    (resp.op = "postLocation" /\ resp.token = "user" /\ profiles[resp.uid] = "traveller")
        => resp.status = 403

\* The role lookup of a registered traveller failed and the POST was answered 500.
C2_LookupFailed ==
    /\ resp.op = "postLocation" /\ resp.token = "user"
    /\ profiles[resp.uid] = "traveller"
    /\ resp.failed = {"user_profiles.select"}
    /\ resp.status = 500

\* C2 (amended): a POST of a location by an authenticated caller whose profile
\* role is traveller is answered 403, or 500 when the lookup of the caller's
\* role fails, and whatever the body it adds no row to vehicle_locations; in
\* every reachable state each location row's updated_by is an identity whose
\* profile role is staff (a role never changes once inserted).
C2_Step ==
    (resp'.op = "postLocation" /\ resp'.token = "user"
        /\ profiles[resp'.uid] = "traveller") =>
        /\ locations' = locations
        /\ resp'.status = IF "user_profiles.select" \in resp'.failed THEN 500 ELSE 403
C2_RowsByStaff == \A i \in DOMAIN locations : profiles[locations[i].updated_by] = "staff"
C2_RolesKept == \A e \in Emails : profiles[e] # NoProfile => profiles'[e] = profiles[e]
C2_OnlyStaffWrite == []C2_RowsByStaff /\ [][C2_Step /\ C2_RolesKept]_vars

\* A traveller's POST with both coordinates was answered 403 while the table
\* holds a row written by a staff member.
C2_Witness ==
    /\ resp.op = "postLocation" /\ resp.token = "user" /\ resp.status = 403
    /\ profiles[resp.uid] = "traveller"
    /\ ~CoordinatesMissing(resp.req.body)
    /\ Len(locations) = 1

\* C3: GET /api/tickets answers an authenticated user with the tickets whose
\* user_id is that user's id and with no ticket another user booked: each
\* item listed is the view of one of the caller's rows, as many items as the
\* caller has rows, and a row of another user that differs from all of the
\* caller's is not listed.
C3_Isolation ==
    (resp.op = "tickets" /\ resp.status = 200) =>
        LET mine == {i \in 1..Len(tickets) : tickets[i].user_id = resp.uid}
            others == (1..Len(tickets)) \ mine
        IN  /\ Len(resp.body) = Cardinality(mine)
            /\ \A k \in DOMAIN resp.body : \E i \in mine : resp.body[k] = TicketView(i)
            /\ \A j \in others :
                (\A i \in mine : TicketView(i) # TicketView(j)) =>
                    \A k \in DOMAIN resp.body : resp.body[k] # TicketView(j)

\* A user was listed one ticket while the table also holds a different
\* ticket that another user booked.
C3_Witness ==
    /\ resp.op = "tickets" /\ resp.status = 200 /\ Len(resp.body) = 1
    /\ Len(tickets) = 2
    /\ \E j \in 1..2 : tickets[j].user_id # resp.uid /\ TicketView(j) # resp.body[1]

\* C4: a signup with every field present and a role outside {traveller,
\* staff} is answered 400 before any external call: no credential is created
\* and no user_profiles row is inserted.
C4_Step ==
    (/\ resp'.op = "signup"
     /\ ~SignupFieldsMissing(resp'.req)
     /\ ~(resp'.req.role.t = "string" /\ resp'.req.role.v \in {"traveller", "staff"})) =>
        /\ resp'.status = 400
        /\ resp'.calls = <<>>
        /\ UNCHANGED <<credentials, profiles>>
C4_InvalidRole == [][C4_Step]_vars

\* The signup of alice as admin was answered 400 "Invalid role".
C4_Witness ==
    /\ resp.op = "signup" /\ resp.req.role = Str("admin")
    /\ resp.status = 400 /\ resp.error = "Invalid role"
    /\ credentials["alice@x"] = NoCred

\* TKT-<digits>-<exactly 6 upper-case letters or digits>
MatchesTicketPattern(id) ==
    LET dash == Len(id) - 6
    IN  /\ dash >= 6
        /\ SubSeq(id, 1, 4) = <<"T", "K", "T", "-">>
        /\ \A i \in 5..(dash - 1) : id[i] \in Range(DigitCs)
        /\ id[dash] = "-"
        /\ \A i \in (dash + 1)..Len(id) : id[i] \in Range(UpperCs) \cup Range(DigitCs)

\* C5 (as stated): every ticket identifier the booking handler generates
\* matches TKT-<digits>-<exactly 6 uppercase alphanumeric characters>.
C5_Original == \A i \in 1..Len(tickets) : MatchesTicketPattern(tickets[i].ticket_id)

\* Math.random() gave 0.5 and the booking, answered 201, stored a ticket
\* whose identifier ends in the single character I.
C5_ShortSuffix ==
    /\ resp.op = "book" /\ resp.status = 201
    /\ resp.body.id = <<"T", "K", "T", "-">> \o ToDecimal(resp.at) \o <<"-", "I">>
    /\ tickets[Len(tickets)].ticket_id = resp.body.id

\* C6: ticket rows are inserted only by callers whose role is traveller, with
\* booking_status confirmed and user_id the caller's id; every row of every
\* reachable state is confirmed, and no operation changes or removes a row.
C6_RowsConfirmed ==
    \A i \in 1..Len(tickets) :
        tickets[i].booking_status = "confirmed" /\ profiles[tickets[i].user_id] = "traveller"
C6_Step ==
    \/ tickets' = tickets
    \/ /\ Len(tickets') = Len(tickets) + 1
       /\ SubSeq(tickets', 1, Len(tickets)) = tickets
       /\ resp'.op = "book" /\ resp'.token = "user"
       /\ profiles[resp'.uid] = "traveller"
       /\ tickets'[Len(tickets')].user_id = resp'.uid
       /\ tickets'[Len(tickets')].booking_status = "confirmed"
C6_TicketsImmutable == []C6_RowsConfirmed /\ [][C6_Step]_vars

\* A staff member's booking was answered 403 after a traveller had booked
\* two tickets.
C6_Witness ==
    /\ resp.op = "book" /\ resp.token = "user" /\ resp.status = 403
    /\ profiles[resp.uid] = "staff"
    /\ Len(tickets) = 2 /\ tickets[1].user_id # resp.uid

\* s is a substring of the route name of v, letter case ignored
NameContains(v, s) ==
    LET name == toLowerCase(route_name(v))
        part == toLowerCase(s)
    IN  \E at \in 0..(Len(name) - Len(part)) :
            \A k \in 1..Len(part) : name[at + k] = part[k]

\* C7: a route plan with non-empty from and to answers exactly the vehicles
\* that are active and whose route name contains from or to, letter case
\* ignored: none left out, none extra, none twice, no inactive vehicle; and
\* totalOptions is the number of routes answered.
C7_ExactMatches ==
    /\ (/\ resp.op = "plan" /\ resp.token = "user" /\ resp.failed = {}
        /\ ~Falsy(resp.req.from) /\ ~Falsy(resp.req.to)) => resp.status = 200
    /\ (resp.op = "plan" /\ resp.status = 200) =>
        LET routes == resp.body.routes
        IN  /\ ~Falsy(resp.req.from) /\ ~Falsy(resp.req.to)
            /\ {routes[k].id : k \in DOMAIN routes} =
                    {v \in VehicleIds :
                        /\ vehicles[v] = "active"
                        /\ NameContains(v, resp.req.from.v) \/ NameContains(v, resp.req.to.v)}
            /\ \A k, l \in DOMAIN routes : routes[k].id = routes[l].id => k = l
            /\ \A k \in DOMAIN routes : routes[k].route = route_name(routes[k].id)
            /\ resp.body.totalOptions = Len(routes)

\* With Downtown Express and Airport Shuttle both active, from=Airport and
\* to=City were answered with Airport Shuttle alone and totalOptions 1.
C7_Witness ==
    /\ resp.op = "plan" /\ resp.status = 200
    /\ \A v \in VehicleIds : vehicles[v] = "active"
    /\ resp.req.from = Text(Airport) /\ resp.req.to = Text(City)
    /\ Len(resp.body.routes) = 1
    /\ resp.body.routes[1].route = <<"A", "i", "r", "p", "o", "r", "t", " ",
                                     "S", "h", "u", "t", "t", "l", "e">>
    /\ resp.body.totalOptions = 1

\* C8 (as stated): the stats a staff caller is answered count every ticket
\* created at any instant of the current calendar day and no other: passengers
\* is their number, revenue the sum of their fares, trips floor(passengers / 18).
C8_Original ==
    (resp.op = "stats" /\ resp.status = 200 /\ resp.failed = {}) =>
        LET day == {i \in 1..Len(tickets) :
                        tickets[i].created_at \div DayMs = resp.at \div DayMs}
        IN  /\ resp.body.passengers = Cardinality(day)
            /\ resp.body.revenue = SumFares(day)
            /\ resp.body.trips = Cardinality(day) \div 18

\* With no call failing, a staff caller was answered passengers 0 and revenue
\* 0 in the last second of a day in which a ticket had been booked.
C8_LastSecondMissed ==
    /\ resp.op = "stats" /\ resp.status = 200 /\ resp.failed = {}
    /\ resp.at = LastSecond
    /\ resp.body.passengers = 0 /\ resp.body.revenue = 0
    /\ \E i \in 1..Len(tickets) :
        tickets[i].created_at = LastSecond /\ tickets[i].fare_amount > 0

\* C9: a login with email and password present that the auth service refuses
\* is answered 401 'Invalid credentials' whatever the service reported: the
\* answer for an unknown email is the answer for a wrong password, and the
\* service's message is not in it.
C9_GenericRefusal ==
    (resp.op = "login" /\ resp.svc # "") =>
        /\ resp.status = 401
        /\ resp.error = "Invalid credentials"
        /\ resp.body = NoBody

\* The service refused a registered user's login for a wrong password.
C9_Witness ==
    /\ resp.op = "login" /\ resp.svc = "Wrong password"
    /\ resp.req.email = Str("alice@x") /\ credentials["alice@x"] = Password
    /\ resp.status = 401

\* C10 (as stated): a staff caller's POST of a location is answered 400
\* exactly when latitude or longitude is missing from the body.
C10_Original ==
    (/\ resp.op = "postLocation" /\ resp.token = "user"
     /\ profiles[resp.uid] = "staff"
     /\ resp.failed = {}) =>
        (resp.status = 400 <=>
            (resp.req.body.latitude = Undef \/ resp.req.body.longitude = Undef))

\* A staff caller's POST with latitude 0 and longitude 77 was answered 400 and
\* no row was written.
C10_ZeroRejected ==
    /\ resp.op = "postLocation" /\ resp.token = "user" /\ resp.failed = {}
    /\ profiles[resp.uid] = "staff"
    /\ resp.req.body.latitude = Num(0) /\ resp.req.body.longitude = Num(77)
    /\ resp.status = 400
    /\ locations = <<>>

\* C11 (as stated): a GET /api/vehicles that follows another with no write to
\* vehicles or vehicle_locations in between is answered the identical list in
\* the identical order.
C11_Original ==
    [][(/\ resp.op = "vehicles" /\ resp.status = 200
        /\ resp'.op = "vehicles" /\ resp'.status = 200
        /\ UNCHANGED <<vehicles, locations>>) => resp'.body = resp.body]_vars

\* C12: the limiter stands before authentication and every handler of every
\* /api/ path: of the requests one client address sends within one window of
\* 15 minutes at most 100 reach a route, each further one is answered 429
\* with no external call and no change, and once the window has ended the
\* count starts again.
C12_AtMost100 == window.passed <= 100
C12_Refusal == resp.status = 429 => (resp.calls = <<>> /\ window.hits > 100)
C12_Step ==
    window' # window =>
        /\ resp'.status = 429 <=>
            (now < window.resetTime /\ window.hits >= 100)
        /\ resp'.status = 429 => UNCHANGED <<credentials, Tables, sessions>>
        /\ window'.passed =
            (IF now >= window.resetTime THEN 0 ELSE window.passed)
                + (IF resp'.status = 429 THEN 0 ELSE 1)
        /\ now >= window.resetTime =>
            window'.hits = 1 /\ window'.resetTime = now + 15 * 60 * 1000
C12_RateLimit == [](C12_AtMost100 /\ C12_Refusal) /\ [][C12_Step]_vars

\* The 101st request of a window, a login, was answered 429 after 100 had
\* reached their routes.
C12_Witness ==
    /\ resp.op = "login" /\ resp.status = 429
    /\ window.hits = 101 /\ window.passed = 100

\* The rows of vehicle_locations for v that no other row of v is newer than.
MostRecentRows(v) ==
    {i \in 1..Len(locations) :
        /\ locations[i].vehicle_id = v
        /\ \A j \in 1..Len(locations) :
            locations[j].vehicle_id = v =>
                locations[j].created_at <= locations[i].created_at}

\* C13 (as stated): for every vehicle the lat, lng and lastUpdated that
\* GET /api/vehicles reports are those of the vehicle's most recent location
\* row, and null only when the vehicle has no location row.
C13_Original ==
    (resp.op = "vehicles" /\ resp.status = 200) =>
        \A k \in DOMAIN resp.body :
            LET item == resp.body[k]
            IN  IF MostRecentRows(item.id) = {}
                    THEN item.lat = Undef /\ item.lng = Undef /\ item.lastUpdated = Undef
                    ELSE \E i \in MostRecentRows(item.id) :
                            /\ item.lat = Num(locations[i].latitude)
                            /\ item.lng = Num(locations[i].longitude)
                            /\ item.lastUpdated.v = locations[i].updated_at

\* The list reported for v2 the position posted the day before, (12, 77),
\* while the only most recent row of v2 holds (13, 78).
C13_StaleListed ==
    /\ resp.op = "vehicles" /\ resp.status = 200
    /\ \E k \in DOMAIN resp.body :
        /\ resp.body[k].id = "v2"
        /\ resp.body[k].lat = Num(12) /\ resp.body[k].lng = Num(77)
    /\ \E i \in MostRecentRows("v2") : locations[i].created_at = NextNoon
    /\ \A i \in MostRecentRows("v2") : locations[i].latitude = 13

\* C14: the location history is append-only.  A POST of a location answered
\* 200 adds exactly one row, with vehicle_id the :id of the request,
\* updated_by the caller's id and the coordinates of the body, and leaves
\* every earlier row as it was; no other step changes vehicle_locations.
C14_Step ==
    /\ \/ locations' = locations
       \/ /\ resp'.op = "postLocation" /\ resp'.status = 200
          /\ Len(locations') = Len(locations) + 1
          /\ SubSeq(locations', 1, Len(locations)) = locations
          /\ locations'[Len(locations')].vehicle_id = resp'.req.id
          /\ locations'[Len(locations')].updated_by = resp'.uid
          /\ locations'[Len(locations')].latitude = resp'.req.body.latitude.v
          /\ locations'[Len(locations')].longitude = resp'.req.body.longitude.v
    /\ (resp'.op = "postLocation" /\ resp'.status = 200 /\ now' = now) =>
            Len(locations') = Len(locations) + 1
C14_AppendOnly == [][C14_Step]_vars

\* A position of v2 was posted and answered 200 after a position of v1: the
\* table holds both rows, the row of v1 first.
C14_Witness ==
    /\ resp.op = "postLocation" /\ resp.status = 200 /\ resp.req.id = "v2"
    /\ Len(locations) = 2
    /\ locations[1].vehicle_id = "v1" /\ locations[2].vehicle_id = "v2"
    /\ locations[2].updated_by = resp.uid

\* C15 (as stated): whenever a POST of a location for a vehicle is answered
\* 200, that vehicle has status active in the datastore.
C15_Original ==
    (resp.op = "postLocation" /\ resp.status = 200 /\ resp.req.id \in VehicleIds) =>
        vehicles[resp.req.id] = "active"

\* The status update of v2 failed, the POST was answered 200 all the same,
\* and v2, with its new location row, is still inactive.
C15_StatusStale ==
    /\ resp.op = "postLocation" /\ resp.status = 200 /\ resp.req.id = "v2"
    /\ resp.failed = {"vehicles.update"}
    /\ vehicles["v2"] = "inactive"
    /\ locations # <<>> /\ locations[Len(locations)].vehicle_id = "v2"

\* An identity with a credential and no user_profiles row.
Orphan(e) == credentials[e] # NoCred /\ profiles[e] = NoProfile
\* The last request was a login of e with e's password.
LoggedInAs(e) ==
    /\ resp.op = "login"
    /\ resp.req.email = Str(e)
    /\ resp.req.password = Str(credentials[e])

\* C16 (as stated): once a signup has created the credential and failed to
\* insert the profile, every later login with the correct credentials is
\* answered 500.
C16_Original == \A e \in Emails : (Orphan(e) /\ LoggedInAs(e)) => resp.status = 500

\* C16 (amended): a signup whose profile insert fails after the credential
\* was created is answered 500 and leaves the credential with no profile; no
\* later operation creates the profile; a later login with the correct
\* credentials is answered 500, or 401 when the auth service refuses the
\* sign-in, and never 200.
C16_OrphanLogin ==
    \A e \in Emails :
        (Orphan(e) /\ LoggedInAs(e)) =>
            /\ resp.status = IF resp.svc # "" THEN 401 ELSE 500
            /\ resp.status # 200
C16_Step ==
    /\ (resp'.op = "signup" /\ "user_profiles.insert" \in resp'.failed) =>
        /\ resp'.status = 500
        /\ credentials'[resp'.req.email.v] = resp'.req.password.v
        /\ profiles'[resp'.req.email.v] = NoProfile
    /\ \A e \in Emails :
        Orphan(e) => (credentials'[e] = credentials[e] /\ profiles'[e] = NoProfile)
C16_NonAtomicSignup == []C16_OrphanLogin /\ [][C16_Step]_vars

\* alice's signup lost its profile insert; her login with the right password,
\* which the auth service accepted, was answered 500.
C16_Witness ==
    /\ Orphan("alice@x") /\ LoggedInAs("alice@x")
    /\ resp.svc = "" /\ "user_profiles.select" \in Range(resp.calls)
    /\ resp.status = 500 /\ resp.error = "Failed to fetch user profile"

\* C17 (as stated): a logout by user A that is answered 200 ends A's session
\* and leaves the session of every other user as it was.
C17_Original ==
    [][(resp'.op = "logout" /\ resp'.status = 200) =>
        /\ resp'.uid \notin sessions'.live
        /\ \A e \in Emails \ {resp'.uid} : e \in sessions.live => e \in sessions'.live]_vars

\* alice's logout was answered 200 and her session is still live: the client
\* held the session of whoever signed in last, and ended that one.
C17_OtherSessionEnded ==
    /\ resp.op = "logout" /\ resp.status = 200 /\ resp.uid = "alice@x"
    /\ "alice@x" \in sessions.live
    /\ "bob@x" \notin sessions.live
    /\ sessions.client = NoUser

\* C18 (as stated): a booking request answered 400, 403 or 500 leaves the
\* tickets table unchanged; only a booking answered 201 inserts a row.
C18_Original ==
    [][(resp'.op = "book" /\ resp'.status \in {400, 403, 500}) => tickets' = tickets]_vars

\* A booking was answered 500 "Internal server error" after its insert had
\* been issued and accepted: the row it inserted is the last of the table.
C18_RowBehind500 ==
    /\ resp.op = "book" /\ resp.status = 500 /\ resp.error = "Internal server error"
    /\ "tickets.insert" \in Range(resp.calls) \ resp.failed
    /\ Len(tickets) >= 1
    /\ tickets[Len(tickets)].user_id = resp.uid
    /\ tickets[Len(tickets)].created_at = resp.at

\* The marker the latest list asks for: the position of a listed, active
\* vehicle that has one, and none otherwise.
MarkerDue(entry) ==
    IF entry.listed /\ entry.status = "active" /\ entry.lat.t = "number"
            /\ entry.lng.t = "number"
        THEN <<entry.lat.v, entry.lng.v>>
        ELSE NoMarker

\* C19 (as stated): while a user is logged in, the map holds for every
\* vehicle id exactly the marker the latest vehicle list asks for: one at the
\* latest position of an active vehicle that has a position, and none for a
\* vehicle that is inactive, has no position or is absent from the list.
C19_Original ==
    app.currentUser # NoUser =>
        \A v \in VehicleIds : app.markers[v] = MarkerDue(app.vehicles[v])

\* The latest list came in with v1 inactive, and the map still holds the
\* marker an earlier list had put there for v1.
C19_StaleMarker ==
    /\ app.currentUser # NoUser /\ app.event = "response"
    /\ app.vehicles["v1"].listed /\ app.vehicles["v1"].status = "inactive"
    /\ app.markers["v1"] # NoMarker

\* C20: a refresh timer is active exactly while a user is logged in, and never
\* more than one; a vehicle fetch is issued at the instant of a login (or of a
\* start that restores a saved user) and then by the timer exactly 30 seconds
\* after the fetch before; no fetch is issued while no user is logged in.
C20_OneTimer ==
    /\ (app.currentUser # NoUser) <=> (app.timers # {})
    /\ Cardinality(app.timers) <= 1
    /\ \A x \in app.timers : x.due = app.lastFetch + 30 * 1000 /\ now <= x.due
C20_Issued ==
    app.issued =>
        /\ app.currentUser # NoUser
        /\ app.lastFetch = now
        /\ app.event \in {"login", "load", "timer"}
C20_Step ==
    /\ (app.currentUser = NoUser /\ app'.currentUser # NoUser) =>
            (app'.issued /\ app'.lastFetch = now')
    /\ (app'.issued /\ app'.event = "timer") =>
            (app.currentUser # NoUser /\ now' = app.lastFetch + 30 * 1000)
    /\ app'.currentUser = NoUser => (~app'.issued /\ app'.pending = 0)
C20_Polling == [](C20_OneTimer /\ C20_Issued) /\ [][C20_Step]_vars

\* A user logged in 15 seconds after the page had started, and the timer has
\* just issued the fetch that follows the login's by 30 seconds.
C20_Witness ==
    /\ app.currentUser # NoUser /\ app.event = "timer" /\ app.issued
    /\ app.lastFetch = Noon + 3 * StepMs
    /\ Cardinality(app.timers) = 1

====
